---- MODULE Spec2Model ----
(***************************************************************************)
(* Consultation lifecycle of the OgaDoctor pharmacy dashboard              *)
(* (src/dashboard.py).  The store is the remote `consultations` table; a   *)
(* pharmacist session holds the list fetched by get_consultations() when   *)
(* the Live Queue page was last run, and each of the four action buttons   *)
(* builds an update payload, sends it through update_consultation_status() *)
(* and reruns the page.                                                    *)
(*                                                                         *)
(* get_consultations() is modelled as the chained query that remains once  *)
(* the commented-out `.neq('status', 'completed')` link (line 100) is left *)
(* out: select('*').order('created_at', desc=True).                        *)
(*                                                                         *)
(* Time is a counter: datetime.now() reads `now`, and every button handler *)
(* advances it, so two handlers never read the same instant.               *)
(***************************************************************************)
EXTENDS Integers, Sequences, FiniteSets, TLC

\* ------------------------------------------------------------------ bounds
\* Number of button presses in a run.
MaxActions == 2
MaxMedications == 2

\* --------------------------------------------------------------- constants
NULL == "NULL"
NoTime == << >>

Pharmacists == {"p1", "p2"}
\* The rows the upstream intake has created, oldest first, one of each kind
\* the page distinguishes: with an AI diagnosis, with the column null, with
\* the empty string (`if patient.get('ai_diagnosis')` treats the last two
\* alike).  The priority is assigned upstream; no handler branches on it.
IntakeRows ==
    << [ai_diagnosis |-> "Malaria-like symptoms", priority |-> "URGENT"],
       [ai_diagnosis |-> NULL, priority |-> "MODERATE"],
       [ai_diagnosis |-> "", priority |-> "LOW"] >>
DiagnosisTexts == {"", "malaria"}
PrescriptionTexts == {"", "ACT 3 days"}
AgreementOptions == {"Agree with AI", "Partially agree", "Disagree with AI"}

ClockStart == Len(IntakeRows)
ClockEnd == ClockStart + MaxActions

VARIABLES store, queue, now, last, view
vars == <<store, queue, now, last, view>>

\* ------------------------------------------------------------------- rows
\* A row as the external intake creates it: status new, no pharmacist
\* decision, ids and created_at assigned in order of arrival.
NewRow(i, ai, prio) ==
    [id |-> i, created_at |-> i - 1, priority |-> prio, ai_diagnosis |-> ai,
     symptoms |-> "fever, headache",
     status |-> "new", pharmacist_response |-> NULL,
     pharmacist_diagnosis |-> NULL, pharmacist_prescription |-> NULL,
     diagnosis_agreement |-> NULL, response_time |-> NoTime]

\* Python truthiness of an optional string: None and '' are falsy.
Truthy(s) == s # NULL /\ s # ""

\* dict merge performed by the table update: given fields overwrite, the
\* others are kept.
Merge(row, updates) ==
    [f \in DOMAIN row |-> IF f \in DOMAIN updates THEN updates[f] ELSE row[f]]

\* ------------------------------------------------------------ store access
RECURSIVE OrderDesc(_, _)
OrderDesc(s, ids) ==
    IF ids = {} THEN << >>
    ELSE LET m == CHOOSE i \in ids :
                    \A j \in ids : s[j].created_at <= s[i].created_at
         IN <<s[m]>> \o OrderDesc(s, ids \ {m})

\* get_consultations(): every row, newest first; [] when the query raises.
get_consultations(s, up) ==
    IF up THEN OrderDesc(s, DOMAIN s) ELSE << >>

\* The columns of a fetched row that the Live Queue page branches on: id for
\* the button keys and the update, ai_diagnosis for the agreement radio.  The
\* page never reads the status of a fetched row.
QueueEntry(row) ==
    [id |-> row.id, ai_diagnosis |-> row.ai_diagnosis]

Fetched(s, up) ==
    LET rows == get_consultations(s, up)
    IN [k \in 1..Len(rows) |-> QueueEntry(rows[k])]

\* Variant: the `.eq('id', consultation_id)` filter left out, so the update
\* matches every row.
update_consultation_status_NoFilter(s, consultation_id, updates, up) ==
    IF ~up
    THEN [store |-> s, data |-> "None", raised |-> TRUE]
    ELSE [store |-> [i \in DOMAIN s |-> Merge(s[i], updates)],
          data |-> "row", raised |-> FALSE]

\* update_consultation_status(): data is the list of rows the update
\* matched (empty when the id matches none), None when the call raised.
update_consultation_status(s, consultation_id, updates, up) ==
    IF ~up
    THEN [store |-> s, data |-> "None", raised |-> TRUE]
    ELSE IF consultation_id \in DOMAIN s
         THEN [store |-> [s EXCEPT ![consultation_id] = Merge(@, updates)],
               data |-> "row", raised |-> FALSE]
         ELSE [store |-> s, data |-> "empty", raised |-> FALSE]

\* --------------------------------------------------------- action payloads
agreement_map(choice) ==
    CASE choice = "Agree with AI" -> "agreed"
      [] choice = "Partially agree" -> "modified"
      [] choice = "Disagree with AI" -> "disagreed"

\* Variant: the radio is rendered for every row.
AgreementWidget_AlwaysShown(patient, choice) == choice

\* The agreement radio is rendered only when the fetched row carries an AI
\* diagnosis; otherwise the local `agreement` is None.
AgreementWidget(patient, choice) ==
    IF Truthy(patient.ai_diagnosis) THEN choice ELSE NULL

\* Variant: the audit column left out of the confirm payload.
ConfirmUpdates_NoResponse(diagnosis, prescription, agreement, t) ==
    LET base == [pharmacist_diagnosis |-> diagnosis,
                 pharmacist_prescription |-> prescription,
                 status |-> "confirmed",
                 response_time |-> <<t>>]
    IN IF agreement # NULL
       THEN base @@ [diagnosis_agreement |-> agreement_map(agreement)]
       ELSE base

ConfirmUpdates(diagnosis, prescription, agreement, t) ==
    LET base == [pharmacist_diagnosis |-> diagnosis,
                 pharmacist_prescription |-> prescription,
                 status |-> "confirmed",
                 pharmacist_response |-> "stock_available",
                 response_time |-> <<t>>]
    IN IF agreement # NULL
       THEN base @@ [diagnosis_agreement |-> agreement_map(agreement)]
       ELSE base

\* Variant: the payload of the neighbouring button pasted in unchanged.
OutOfStockUpdates_Pasted(diagnosis, t) ==
    [pharmacist_diagnosis |-> diagnosis,
     status |-> "referred_to_doctor",
     pharmacist_response |-> "needs_doctor",
     response_time |-> <<t>>]

OutOfStockUpdates(diagnosis, t) ==
    [pharmacist_diagnosis |-> diagnosis,
     status |-> "referred",
     pharmacist_response |-> "out_of_stock",
     response_time |-> <<t>>]

\* Variant: the payload also carries the prescription text area, which the
\* pharmacist left empty.
ReferUpdates_WithPrescription(diagnosis, t) ==
    [pharmacist_diagnosis |-> diagnosis,
     pharmacist_prescription |-> "",
     diagnosis_agreement |-> NULL,
     status |-> "referred_to_doctor",
     pharmacist_response |-> "needs_doctor",
     response_time |-> <<t>>]

ReferUpdates(diagnosis, t) ==
    [pharmacist_diagnosis |-> diagnosis,
     status |-> "referred_to_doctor",
     pharmacist_response |-> "needs_doctor",
     response_time |-> <<t>>]

\* Variant: the status literal of the confirm payload left in place.
CompleteUpdates_WrongStatus(t) ==
    [status |-> "confirmed",
     response_time |-> <<t>>]

CompleteUpdates(t) ==
    [status |-> "completed",
     response_time |-> <<t>>]

\* --------------------------------------------------------------- handlers
\* Messages a handler emits: st.error from update_consultation_status when
\* the call raised, then the handler's own report, whatever was returned.
Shown(res, report) ==
    IF res.raised THEN <<"update_error", report>> ELSE <<report>>

\* Common tail of the four button handlers: send the update, report, and
\* rerun the page (which fetches the queue again).
Handle(p, op, patient, updates, report, diagnosis, prescription, agreement, up, fetchUp) ==
    LET res == update_consultation_status(store, patient.id, updates, up)
    IN /\ store' = res.store
       /\ queue' = [queue EXCEPT ![p] = Fetched(res.store, fetchUp)]
       /\ now' = now + 1
       /\ last' = [op |-> op, id |-> patient.id,
                   diagnosis |-> diagnosis, prescription |-> prescription,
                   agreement |-> agreement, before |-> store[patient.id],
                   data |-> res.data, raised |-> res.raised,
                   shown |-> Shown(res, report)]
       /\ UNCHANGED view

ConfirmDispense(p, k, diagnosis, prescription, choice, up, fetchUp) ==
    /\ now < ClockEnd
    /\ k \in 1..Len(queue[p])
    /\ LET patient == queue[p][k]
           agreement == AgreementWidget(patient, choice)
       IN Handle(p, "confirm", patient,
                 ConfirmUpdates(diagnosis, prescription, agreement, now),
                 "prescription_confirmed",
                 diagnosis, prescription, agreement, up, fetchUp)

OutOfStock(p, k, diagnosis, up, fetchUp) ==
    /\ now < ClockEnd
    /\ k \in 1..Len(queue[p])
    /\ Handle(p, "out_of_stock", queue[p][k],
              OutOfStockUpdates(diagnosis, now),
              "referred_to_pharmacy",
              diagnosis, NULL, NULL, up, fetchUp)

ReferToDoctor(p, k, diagnosis, up, fetchUp) ==
    /\ now < ClockEnd
    /\ k \in 1..Len(queue[p])
    /\ Handle(p, "refer", queue[p][k],
              ReferUpdates(diagnosis, now),
              "advised_doctor",
              diagnosis, NULL, NULL, up, fetchUp)

MarkComplete(p, k, up, fetchUp) ==
    /\ now < ClockEnd
    /\ k \in 1..Len(queue[p])
    /\ Handle(p, "complete", queue[p][k],
              CompleteUpdates(now),
              "consultation_completed",
              NULL, NULL, NULL, up, fetchUp)

\* A run of the Live Queue page without a button pressed (page load,
\* navigation, manual refresh): the queue is fetched again.
LoadLiveQueue(p, fetchUp) ==
    /\ queue' = [queue EXCEPT ![p] = Fetched(store, fetchUp)]
    /\ queue' # queue
    /\ UNCHANGED <<store, now, last, view>>

\* --------------------------------------------------------- analytics page
\* get_all_consultations(): every row, newest first; [] when the query
\* raises.
get_all_consultations(s, up) ==
    IF up THEN OrderDesc(s, DOMAIN s) ELSE << >>

\* pandas notna(): a null column value is NA, the empty string is not.
notna(x) == x # NULL

\* The Python expression n / d * 100: ZeroDivisionError when d is 0.  The
\* value is kept in whole percent (floor); it lies in [0,100] exactly when
\* the quotient does.
PyPercent(n, d) ==
    IF d = 0
    THEN [raised |-> TRUE, divided |-> TRUE, value |-> 0]
    ELSE [raised |-> FALSE, divided |-> TRUE, value |-> (n * 100) \div d]

NotDivided == [raised |-> FALSE, divided |-> FALSE, value |-> 0]

urgent_count(rows) ==
    Cardinality({k \in 1..Len(rows) : rows[k].priority = "URGENT"})

\* Variant: the zero guard left out.
urgent_pct_Unguarded(urgent, total_consultations) ==
    PyPercent(urgent, total_consultations)

urgent_pct(urgent, total_consultations) ==
    IF total_consultations > 0
    THEN PyPercent(urgent, total_consultations) ELSE NotDivided

\* Variant: the Completed card counts the rows with status completed.
completed_CountsCompleted(rows) ==
    Cardinality({k \in 1..Len(rows) : rows[k].status = "completed"})

\* The "Completed" card: the rows whose status is confirmed.
completed(rows) ==
    Cardinality({k \in 1..Len(rows) : rows[k].status = "confirmed"})

completed_pct(n, total_consultations) ==
    IF total_consultations > 0
    THEN PyPercent(n, total_consultations) ELSE NotDivided

\* AI Performance tab: the rows with both diagnoses present.
ai_consultations(rows) ==
    SelectSeq(rows, LAMBDA r : notna(r.ai_diagnosis) /\ notna(r.pharmacist_diagnosis))

\* Variant: the mask of the subset filter pasted into the agreed count.
agreed_PastedMask(reviewed) ==
    Cardinality({k \in 1..Len(reviewed) : notna(reviewed[k].ai_diagnosis)})

agreed(reviewed) ==
    Cardinality({k \in 1..Len(reviewed) : reviewed[k].diagnosis_agreement = "agreed"})

modified(reviewed) ==
    Cardinality({k \in 1..Len(reviewed) : reviewed[k].diagnosis_agreement = "modified"})

disagreed(reviewed) ==
    Cardinality({k \in 1..Len(reviewed) : reviewed[k].diagnosis_agreement = "disagreed"})

rate(n, total_reviewed) ==
    IF total_reviewed > 0 THEN PyPercent(n, total_reviewed) ELSE NotDivided

\* What a run of the Analytics page leaves on screen: nothing but a warning
\* when the fetch returned no rows (st.stop()), otherwise the KPI cards and,
\* when the reviewed subset is not empty, the AI Performance metrics.
AnalyticsView(rows) ==
    IF Len(rows) = 0
    THEN [page |-> "analytics", stopped |-> TRUE, rows |-> rows]
    ELSE LET total_consultations == Len(rows)
             reviewed == ai_consultations(rows)
             total_reviewed == Len(reviewed)
         IN [page |-> "analytics", stopped |-> FALSE, rows |-> rows,
             total_consultations |-> total_consultations,
             urgent_count |-> urgent_count(rows),
             urgent_pct |-> urgent_pct(urgent_count(rows), total_consultations),
             completed |-> completed(rows),
             completed_pct |-> completed_pct(completed(rows), total_consultations),
             ai_tab |-> total_reviewed > 0,
             total_reviewed |-> total_reviewed,
             agreed |-> IF total_reviewed > 0 THEN agreed(reviewed) ELSE 0,
             modified |-> IF total_reviewed > 0 THEN modified(reviewed) ELSE 0,
             disagreed |-> IF total_reviewed > 0 THEN disagreed(reviewed) ELSE 0,
             agreement_rate |->
                IF total_reviewed > 0
                THEN rate(agreed(reviewed), total_reviewed) ELSE NotDivided,
             modification_rate |->
                IF total_reviewed > 0
                THEN rate(modified(reviewed), total_reviewed) ELSE NotDivided,
             disagreement_rate |->
                IF total_reviewed > 0
                THEN rate(disagreed(reviewed), total_reviewed) ELSE NotDivided]

LoadAnalytics(up) ==
    /\ view' = AnalyticsView(get_all_consultations(store, up))
    /\ view' # view
    /\ UNCHANGED <<store, queue, now, last>>

\* --------------------------------------------------------- inventory page
\* The medications table is maintained outside the dashboard (Supabase Table
\* Editor); a page run reads whatever it holds.  A table either has a
\* status column or has none.
StockLevels == {8, 10, 12}
ReorderPoints == {10}
StoredStatuses == {"Low Stock", "OK"}

MedicationRows ==
    [current_stock : StockLevels, reorder_point : ReorderPoints,
     status : StoredStatuses]
    \cup [current_stock : StockLevels, reorder_point : ReorderPoints]

Columns(medications) ==
    UNION {DOMAIN medications[k] : k \in 1..Len(medications)}

MedicationTables ==
    {m \in UNION {[1..n -> MedicationRows] : n \in 0..MaxMedications} :
        \A j, k \in 1..Len(m) : DOMAIN m[j] = DOMAIN m[k]}

\* get_inventory(): the table's rows; [] when the query raises.
get_inventory(table, up) == IF up THEN table ELSE << >>

\* Variant: the count recomputed from the stock figures.
low_stock_count_Recomputed(medications) ==
    Cardinality({k \in 1..Len(medications) :
        medications[k].current_stock <= medications[k].reorder_point})

\* len(df_inv[df_inv['status'] == 'Low Stock']) if 'status' in
\* df_inv.columns else 0
low_stock_count(medications) ==
    IF "status" \in Columns(medications)
    THEN Cardinality({k \in 1..Len(medications) :
            medications[k].status = "Low Stock"})
    ELSE 0

InventoryView(medications) ==
    IF Len(medications) = 0
    THEN [page |-> "inventory", stopped |-> TRUE, medications |-> medications]
    ELSE [page |-> "inventory", stopped |-> FALSE, medications |-> medications,
          low_stock_count |-> low_stock_count(medications),
          total_items |-> Len(medications)]

LoadInventory(table, up) ==
    /\ view' = InventoryView(get_inventory(table, up))
    /\ view' # view
    /\ UNCHANGED <<store, queue, now, last>>

\* ------------------------------------------------------------------- spec
NoView == [page |-> "none"]

NoAction ==
    [op |-> "none", id |-> 0,
     diagnosis |-> NULL, prescription |-> NULL, agreement |-> NULL,
     before |-> NewRow(0, NULL, "LOW"),
     data |-> "None", raised |-> FALSE, shown |-> << >>]

\* The table as the upstream intake leaves it: the first n intake rows, all
\* new.
IntakeStore(n) ==
    [i \in 1..n |-> NewRow(i, IntakeRows[i].ai_diagnosis, IntakeRows[i].priority)]

Init ==
    /\ \E n \in 0..Len(IntakeRows) : store = IntakeStore(n)
    /\ queue = [p \in Pharmacists |-> Fetched(store, TRUE)]
    /\ now = ClockStart
    /\ last = NoAction
    /\ view = NoView

Next ==
    \E p \in Pharmacists, up \in BOOLEAN, fetchUp \in BOOLEAN :
       \/ \E k \in 1..Len(IntakeRows), d \in DiagnosisTexts,
             r \in PrescriptionTexts, c \in AgreementOptions :
             ConfirmDispense(p, k, d, r, c, up, fetchUp)
       \/ \E k \in 1..Len(IntakeRows), d \in DiagnosisTexts :
             OutOfStock(p, k, d, up, fetchUp)
       \/ \E k \in 1..Len(IntakeRows), d \in DiagnosisTexts :
             ReferToDoctor(p, k, d, up, fetchUp)
       \/ \E k \in 1..Len(IntakeRows) : MarkComplete(p, k, up, fetchUp)
       \/ LoadLiveQueue(p, fetchUp)

Spec == Init /\ [][Next]_vars

\* The Analytics page over the tables the lifecycle produces: intake rows of
\* either kind of priority, the four buttons pressed with one diagnosis and
\* one prescription text while the store is reachable, and runs of the
\* Analytics page.
Priorities == {"URGENT", "LOW"}

InitAnalytics ==
    /\ \E n \in 0..Len(IntakeRows) : \E prio \in [1..n -> Priorities] :
          store = [i \in 1..n |-> NewRow(i, IntakeRows[i].ai_diagnosis, prio[i])]
    /\ queue = [p \in Pharmacists |-> Fetched(store, TRUE)]
    /\ now = ClockStart
    /\ last = NoAction
    /\ view = NoView

NextAnalytics ==
    \/ \E p \in Pharmacists, k \in 1..Len(IntakeRows), c \in AgreementOptions :
          ConfirmDispense(p, k, "malaria", "ACT 3 days", c, TRUE, TRUE)
    \/ \E p \in Pharmacists, k \in 1..Len(IntakeRows) :
          OutOfStock(p, k, "malaria", TRUE, TRUE)
    \/ \E p \in Pharmacists, k \in 1..Len(IntakeRows) :
          ReferToDoctor(p, k, "malaria", TRUE, TRUE)
    \/ \E p \in Pharmacists, k \in 1..Len(IntakeRows) :
          MarkComplete(p, k, TRUE, TRUE)
    \/ \E up \in BOOLEAN : LoadAnalytics(up)

SpecAnalytics == InitAnalytics /\ [][NextAnalytics]_vars

\* Runs of the Inventory page over any medications table.
NextInventory ==
    \E table \in MedicationTables, up \in BOOLEAN : LoadInventory(table, up)

SpecInventory == Init /\ [][NextInventory]_vars

\* ================================================================= claims

\* C1: completed is terminal. Once a consultation has status completed, no
\* pharmacist action writes to it: every step leaves a completed row exactly
\* as it was, so it stays completed.
C1_CompletedIsTerminal ==
    [][\A i \in DOMAIN store :
          store[i].status = "completed" => store'[i] = store[i]]_vars

\* C2: response_time is write-once. Once a consultation carries a
\* response_time, every later step leaves that value as it is.
C2_ResponseTimeWriteOnce ==
    [][\A i \in DOMAIN store :
          store[i].response_time # NoTime
             => store'[i].response_time = store[i].response_time]_vars

\* C3 (as stated): Mark Complete yields completed from confirmed, referred
\* and referred_to_doctor, and applied to a consultation with status new it
\* does not make it completed.
C3_MarkCompleteNeedsDecision ==
    last.op = "complete" =>
       /\ (last.before.status \in {"confirmed", "referred", "referred_to_doctor"}
             /\ ~last.raised
              => store[last.id].status = "completed")
       /\ (last.before.status = "new"
              => store[last.id].status # "completed")

\* C3 (amended): Mark Complete has no precondition on the current status;
\* whenever its update is applied, the consultation is completed, whatever
\* status it had before (new included).
C3_MarkCompleteFromAnyStatus ==
    last.op = "complete" /\ ~last.raised
       => store[last.id].status = "completed"

C3_Witness ==
    /\ last.op = "complete" /\ ~last.raised
    /\ last.before.status = "new"
    /\ store[last.id].status = "completed"

\* C4: Confirm & Dispense on a non-completed consultation. With diagnosis
\* and prescription text provided, the record becomes confirmed /
\* stock_available with the entered texts, a response_time at or after
\* created_at, and the mapped agreement class when ai_diagnosis is non-empty;
\* with no text provided, the action is not applied (the record is left as
\* it was).
C4_ConfirmAndDispense ==
    last.op = "confirm" /\ last.before.status # "completed" =>
       LET row == store[last.id]
       IN /\ (Truthy(last.diagnosis) /\ Truthy(last.prescription) /\ ~last.raised =>
                /\ row.status = "confirmed"
                /\ row.pharmacist_response = "stock_available"
                /\ row.pharmacist_diagnosis = last.diagnosis
                /\ row.pharmacist_prescription = last.prescription
                /\ row.response_time # NoTime
                /\ row.response_time[1] >= row.created_at
                /\ (Truthy(row.ai_diagnosis) =>
                      \/ last.agreement = "Agree with AI"
                           /\ row.diagnosis_agreement = "agreed"
                      \/ last.agreement = "Partially agree"
                           /\ row.diagnosis_agreement = "modified"
                      \/ last.agreement = "Disagree with AI"
                           /\ row.diagnosis_agreement = "disagreed"))
          /\ (~Truthy(last.diagnosis) /\ ~Truthy(last.prescription) =>
                row = last.before)

\* C5: A consultation carries a diagnosis_agreement only if its ai_diagnosis
\* is non-empty: no action records an agreement for a consultation whose
\* ai_diagnosis is absent or the empty string.
C5_AgreementOnlyWithAiDiagnosis ==
    \A i \in DOMAIN store :
       store[i].diagnosis_agreement # NULL => Truthy(store[i].ai_diagnosis)

C5_Witness ==
    /\ last.op = "confirm" /\ ~last.raised
    /\ ~Truthy(store[last.id].ai_diagnosis)
    /\ store[last.id].status = "confirmed"
    /\ store[last.id].diagnosis_agreement = NULL

\* C6: Out of Stock, applied to a consultation of any non-completed status,
\* yields status referred with pharmacist_response out_of_stock; Refer to
\* Doctor yields referred_to_doctor with needs_doctor.
C6_OutOfStockAndRefer ==
    /\ (last.op = "out_of_stock" /\ ~last.raised
          /\ last.before.status # "completed"
           => /\ store[last.id].status = "referred"
              /\ store[last.id].pharmacist_response = "out_of_stock")
    /\ (last.op = "refer" /\ ~last.raised
          /\ last.before.status # "completed"
           => /\ store[last.id].status = "referred_to_doctor"
              /\ store[last.id].pharmacist_response = "needs_doctor")

C6_Witness ==
    /\ last.op = "out_of_stock" /\ ~last.raised
    /\ last.before.status = "confirmed"
    /\ store[last.id].status = "referred"
    /\ store[last.id].pharmacist_response = "out_of_stock"

\* C7: get_consultations returns only consultations that are not completed:
\* in every state the fetch yields no row with status completed, and no
\* consultation offered in a pharmacist's queue is completed in the store.
C7_QueueExcludesCompleted ==
    LET rows == get_consultations(store, TRUE)
    IN /\ \A k \in 1..Len(rows) : rows[k].status # "completed"
       /\ \A p \in Pharmacists : \A k \in 1..Len(queue[p]) :
             store[queue[p][k].id].status # "completed"

\* C8: A failed update is an error outcome with no effect: when the update
\* of the last action did not return the updated row, the targeted
\* consultation is as it was and the action reported an error only, none of
\* the handlers' completion reports.
C8_FailedUpdateIsAFailure ==
    last.op # "none" /\ last.data # "row" =>
       /\ store[last.id] = last.before
       /\ Len(last.shown) > 0
       /\ \A k \in 1..Len(last.shown) : last.shown[k] = "update_error"

\* C9: Pharmacist actions are idempotent: when an applied action is applied
\* again to the same consultation with the same inputs, directly after the
\* first application, the stored record is left equal to the record after
\* the first application.
C9_ActionsIdempotent ==
    [][(/\ last.op # "none" /\ ~last.raised
        /\ now' = now + 1 /\ ~last'.raised
        /\ last'.op = last.op /\ last'.id = last.id
        /\ last'.diagnosis = last.diagnosis
        /\ last'.prescription = last.prescription
        /\ last'.agreement = last.agreement)
          => store'[last.id] = store[last.id]]_vars

\* C10: Status only moves forward: a consultation that has left new never
\* has status new again, and every change of status is a row of the
\* transition table (confirmed, referred and referred_to_doctor from any
\* non-completed status; completed from confirmed, referred or
\* referred_to_doctor; nothing out of completed).
C10_StatusOnlyMovesForward ==
    [][\A i \in DOMAIN store :
          /\ (store[i].status # "new" => store'[i].status # "new")
          /\ (store'[i].status # store[i].status =>
                \/ /\ store[i].status # "completed"
                   /\ store'[i].status \in
                         {"confirmed", "referred", "referred_to_doctor"}
                \/ /\ store[i].status \in
                         {"confirmed", "referred", "referred_to_doctor"}
                   /\ store'[i].status = "completed")]_vars

\* C11: Every step changes at most the consultation targeted by the action,
\* and of it only the pharmacist-decision fields: id, created_at, priority,
\* ai_diagnosis and the patient's input of every consultation are unchanged,
\* every other consultation is unchanged, and the set of stored ids is
\* unchanged.
C11_ActionFrame ==
    [][/\ DOMAIN store' = DOMAIN store
       /\ \A i \in DOMAIN store :
             /\ store'[i].id = store[i].id
             /\ store'[i].created_at = store[i].created_at
             /\ store'[i].priority = store[i].priority
             /\ store'[i].ai_diagnosis = store[i].ai_diagnosis
             /\ store'[i].symptoms = store[i].symptoms
             /\ (store'[i] # store[i] => i = last'.id)]_vars

C11_Witness ==
    /\ last.op # "none" /\ ~last.raised
    /\ store[last.id] # last.before
    /\ \E j \in DOMAIN store : j # last.id /\ store[j].status = "new"

\* C14: Mark Complete leaves pharmacist_response, pharmacist_diagnosis,
\* pharmacist_prescription and diagnosis_agreement as they were; besides the
\* status it writes response_time only if the consultation had none.
C14_MarkCompleteFrame ==
    last.op = "complete" /\ ~last.raised =>
       LET row == store[last.id]
       IN /\ row.pharmacist_response = last.before.pharmacist_response
          /\ row.pharmacist_diagnosis = last.before.pharmacist_diagnosis
          /\ row.pharmacist_prescription = last.before.pharmacist_prescription
          /\ row.diagnosis_agreement = last.before.diagnosis_agreement
          /\ (last.before.response_time # NoTime
                => row.response_time = last.before.response_time)

\* C15: With two pharmacist sessions acting in any order on the same
\* consultations, status and pharmacist_response agree in every state (new:
\* absent, confirmed: stock_available, referred: out_of_stock,
\* referred_to_doctor: needs_doctor), and after an applied update the status
\* is the one that update wrote.
C15_StatusAndResponseAgree ==
    /\ \A i \in DOMAIN store :
          /\ (store[i].status = "new" => store[i].pharmacist_response = NULL)
          /\ (store[i].status = "confirmed"
                => store[i].pharmacist_response = "stock_available")
          /\ (store[i].status = "referred"
                => store[i].pharmacist_response = "out_of_stock")
          /\ (store[i].status = "referred_to_doctor"
                => store[i].pharmacist_response = "needs_doctor")
    /\ (last.op # "none" /\ ~last.raised =>
          store[last.id].status =
             CASE last.op = "confirm" -> "confirmed"
               [] last.op = "out_of_stock" -> "referred"
               [] last.op = "refer" -> "referred_to_doctor"
               [] last.op = "complete" -> "completed")

\* A second update has overwritten the decision of a first one on a row that
\* both sessions list.
C15_Witness ==
    /\ last.op = "confirm" /\ ~last.raised
    /\ last.before.status = "referred"
    /\ last.before.pharmacist_response = "out_of_stock"
    /\ store[last.id].status = "confirmed"
    /\ store[last.id].pharmacist_response = "stock_available"
    /\ \A p \in Pharmacists : \E k \in 1..Len(queue[p]) : queue[p][k].id = last.id

\* C18: Out of Stock and Refer to Doctor leave pharmacist_prescription and
\* diagnosis_agreement as they were: a consultation confirmed with a
\* prescription and an agreement class and then referred still carries both.
C18_ReferralKeepsPrescription ==
    last.op \in {"out_of_stock", "refer"} /\ ~last.raised =>
       LET row == store[last.id]
       IN /\ row.pharmacist_prescription = last.before.pharmacist_prescription
          /\ row.diagnosis_agreement = last.before.diagnosis_agreement
          /\ row.status = (IF last.op = "out_of_stock"
                           THEN "referred" ELSE "referred_to_doctor")

C18_Witness ==
    /\ last.op = "out_of_stock" /\ ~last.raised
    /\ last.before.status = "confirmed"
    /\ last.before.pharmacist_prescription = "ACT 3 days"
    /\ last.before.diagnosis_agreement = "modified"
    /\ store[last.id].status = "referred"
    /\ store[last.id].pharmacist_prescription = "ACT 3 days"
    /\ store[last.id].diagnosis_agreement = "modified"

\* ------------------------------------------------------- analytics claims
Rendered == view.page = "analytics" /\ ~view.stopped

InPercentRange(q) == ~q.raised /\ q.value \in 0..100

\* C12: the urgent percentage shown by the Analytics page is urgent_count over
\* total_consultations times 100 and lies in [0,100]; the expression gives 0
\* without dividing when the total is 0, and a page run over an empty
\* collection stops before anything is divided.
C12_UrgentPercentageInRange ==
    /\ urgent_pct(0, 0) = NotDivided
    /\ Rendered =>
          /\ view.total_consultations = Len(view.rows)
          /\ view.total_consultations > 0
          /\ view.urgent_count =
                Cardinality({k \in 1..Len(view.rows) : view.rows[k].priority = "URGENT"})
          /\ InPercentRange(view.urgent_pct)
          /\ view.urgent_pct.value =
                (view.urgent_count * 100) \div view.total_consultations
    /\ view.page = "analytics" /\ view.stopped => Len(view.rows) = 0

C12_Witness ==
    /\ Rendered
    /\ view.urgent_count > 0
    /\ view.urgent_count < view.total_consultations
    /\ view.urgent_pct.value > 0 /\ view.urgent_pct.value < 100

\* C16: the Completed card counts exactly the rows with status confirmed, over
\* total_consultations; Mark Complete on a confirmed row lowers the count by
\* one and leaves the total unchanged.
C16_CompletedCountsConfirmed ==
    /\ Rendered =>
          /\ view.completed =
                Cardinality({k \in 1..Len(view.rows) : view.rows[k].status = "confirmed"})
          /\ view.total_consultations = Len(view.rows)
          /\ InPercentRange(view.completed_pct)
          /\ view.completed_pct.value =
                (view.completed * 100) \div view.total_consultations
    /\ last.op = "complete" /\ ~last.raised /\ last.before.status = "confirmed" =>
          LET after == get_all_consultations(store, TRUE)
              before == get_all_consultations([store EXCEPT ![last.id] = last.before], TRUE)
          IN /\ completed(after) = completed(before) - 1
             /\ Len(after) = Len(before)

C16_Witness ==
    /\ last.op = "complete" /\ ~last.raised /\ last.before.status = "confirmed"
    /\ Rendered
    /\ view.rows = get_all_consultations(store, TRUE)
    /\ \E k \in 1..Len(view.rows) :
          view.rows[k].id = last.id /\ view.rows[k].status = "completed"
    /\ view.completed = 0
    /\ view.total_consultations > 1

\* C17: the agreement metrics are computed over the rows with both diagnoses
\* present: each count and their sum is at most the size of that subset, each
\* rate is that count over the subset size in [0,100], and nothing is divided
\* when the subset is empty.
C17_AgreementRatesOverReviewed ==
    Rendered =>
       LET reviewed == {k \in 1..Len(view.rows) :
                           /\ view.rows[k].ai_diagnosis # NULL
                           /\ view.rows[k].pharmacist_diagnosis # NULL}
           Class(c) == Cardinality({k \in reviewed : view.rows[k].diagnosis_agreement = c})
       IN /\ view.total_reviewed = Cardinality(reviewed)
          /\ view.ai_tab = (view.total_reviewed > 0)
          /\ view.ai_tab =>
                /\ view.agreed = Class("agreed")
                /\ view.modified = Class("modified")
                /\ view.disagreed = Class("disagreed")
                /\ view.agreement_rate.value = (view.agreed * 100) \div view.total_reviewed
                /\ view.modification_rate.value = (view.modified * 100) \div view.total_reviewed
                /\ view.disagreement_rate.value = (view.disagreed * 100) \div view.total_reviewed
          /\ view.agreed <= view.total_reviewed
          /\ view.modified <= view.total_reviewed
          /\ view.disagreed <= view.total_reviewed
          /\ view.agreed + view.modified + view.disagreed <= view.total_reviewed
          /\ InPercentRange(view.agreement_rate)
          /\ InPercentRange(view.modification_rate)
          /\ InPercentRange(view.disagreement_rate)
          /\ ~view.ai_tab =>
                /\ ~view.agreement_rate.divided
                /\ ~view.modification_rate.divided
                /\ ~view.disagreement_rate.divided

C17_Witness ==
    /\ Rendered
    /\ view.ai_tab
    /\ view.total_reviewed = 2
    /\ view.total_reviewed < view.total_consultations
    /\ view.modified = 1
    /\ view.agreed + view.modified + view.disagreed < view.total_reviewed
    /\ view.modification_rate.value = 50

\* ------------------------------------------------------- inventory claims
\* C13: the Low Stock Items card equals the number of medications with
\* current_stock <= reorder_point, whatever a stored status says and also
\* when the table has no status column.
C13_LowStockRecomputed ==
    view.page = "inventory" /\ ~view.stopped =>
       view.low_stock_count =
          Cardinality({k \in 1..Len(view.medications) :
             view.medications[k].current_stock <= view.medications[k].reorder_point})

====
